---------------------------- MODULE Spec2Model ----------------------------
(***************************************************************************)
(* bookyard backend: the credits based reservation workflow.               *)
(*                                                                         *)
(* The state is the relational database (tables profile, book,             *)
(* reservation, creditshistory) and the requests in flight.  Every         *)
(* endpoint handler is split at its database round trips: a SELECT issued  *)
(* by session.get and the flush+COMMIT issued by session.commit are the    *)
(* atomic steps, so that requests served by different workers interleave   *)
(* exactly where the database lets them.  A handler holds no lock between  *)
(* its SELECT and its COMMIT (session.get issues a plain SELECT, the       *)
(* engine is created with the default isolation level).                    *)
(***************************************************************************)
EXTENDS Integers, FiniteSets, Sequences, TLC

\* ------------------------------------------------------------- bounds
\* Number of requests the service accepts in one behaviour.
MaxRequests == 4
\* Last value of the wall clock (claim_daily_bonus is the only time rule).
MaxClock == 1

\* ------------------------------------------------------------- domains
\* Verified subjects (the `sub` claim get_current_user returns).
Users == {"u1", "u2"}
\* Workers that serve requests side by side.
Reqs == {"r1", "r2"}
\* Primary keys a request may name (path parameter or body field `id`);
\* 0 stands for an absent `id` (None: the database generates the key).
BookIds == {1}
\* signing keys of the issuer; a token is signed with one of them or forged
Keys == {"k1", "k2"}
TokenKeys == Keys \cup {"forged"}
ResIds == {1}
\* credits_used values a request body may carry (any int passes validation)
CreditsUsedIn == {-1, 0, 1}
StartDates == {1}
EndDates == {1, 2}

ReservationStatus == {"pending", "active", "completed", "cancelled"}
PENDING == "pending"
\* status values tried in request bodies
StatusIn == {"pending", "active"}

Ops == {"create_reservation", "claim_daily_bonus", "get_my_profile",
        "create_book", "update_book", "delete_book", "cancel_reservation"}

\* profile        table profile: subject -> credits (DOMAIN = the rows)
\* book           table book: id -> [owner_id, is_active]
\* reservation    table reservation: id -> row
\* creditshistory table creditshistory: sequence of [user_id, amount, type]
\* req            per worker, the request it serves: handler, position in
\*                the handler, the objects its session loaded, the response
\* served         number of requests accepted so far
\* now            wall clock
VARIABLES profile, book, reservation, creditshistory, req, served, now

\* CLERK_JWT_PUBLIC_KEY  auth.py:11  the configured public key, or "none"
\* CLERK_JWKS_URL        auth.py:12  whether a key-set URL is configured
\* jwks_cache            auth.py:19  _jwks_cache, the keys of the cached key
\*                       set; {} is the falsy cache (None)
\* published             the keys the issuer serves at its key-set URL
\* gate                  per coroutine of the process, the credential that
\*                       get_current_user is deciding and its outcome
VARIABLES CLERK_JWT_PUBLIC_KEY, CLERK_JWKS_URL, jwks_cache, published, gate

auth == <<CLERK_JWT_PUBLIC_KEY, CLERK_JWKS_URL, jwks_cache, published, gate>>
vars == <<profile, book, reservation, creditshistory, req, served, now, auth>>
db == <<profile, book, reservation, creditshistory>>

\* ------------------------------------------------------------- helpers
\* A worker with no request in it.
Idle ==
    [op |-> "none", pc |-> "idle", user |-> "none", book_id |-> 0, res_id |-> 0,
     credits_used |-> 0, found |-> FALSE, credits |-> 0, is_active |-> FALSE,
     code |-> 0, at |-> 0]

FirstPc(op) ==
    CASE op = "create_reservation" -> "cr_profile"
      [] op = "claim_daily_bonus" -> "cb_profile"
      [] op = "get_my_profile" -> "mp_profile"
      [] op = "create_book" -> "bk_profile"
      [] op = "update_book" -> "ub_book"
      [] op = "delete_book" -> "dl_book"
      [] op = "cancel_reservation" -> "no_route"

\* The handler returns or raises: the request record q (who asked for
\* what, and what the handler read) is kept with the response code and the
\* time of the response.
Done(q, code) ==
    [q EXCEPT !.pc = "done", !.code = code, !.at = now,
              !.res_id = 0, !.is_active = FALSE]

Respond(r, code) == req' = [req EXCEPT ![r] = Done(req[r], code)]

\* Key the database generates for a row inserted without one.
NextId(used) == CHOOSE i \in 1 .. (Cardinality(used) + 1) : i \notin used

\* INSERT of one row into a table (a function from primary key to row).
Insert(table, id, row) ==
    [i \in DOMAIN table \cup {id} |-> IF i = id THEN row ELSE table[i]]

\* DELETE of the row with the given primary key.
Delete(table, id) == [i \in DOMAIN table \ {id} |-> table[i]]

\* ------------------------------------------------------------- requests
env == <<served, now, auth>>

\* A request arrives with a verified subject and is routed to a handler
\* (rid is the reservation a cancel request names).
StartOf(r, ops) ==
    /\ req[r].pc \in {"idle", "done"}
    /\ served < MaxRequests
    /\ served' = served + 1
    /\ \E op \in ops, u \in Users :
          \E rid \in IF op = "cancel_reservation" THEN ResIds ELSE {0} :
             req' = [req EXCEPT ![r] =
                       [Idle EXCEPT !.op = op, !.pc = FirstPc(op), !.user = u,
                                    !.res_id = rid]]
    /\ UNCHANGED <<db, now, auth>>

Start(r) == StartOf(r, Ops)

\* ------------------------------------------------------------- create_reservation
\* reservations.py:20-21  profile = session.get(Profile, user_id)
cr_get_profile(r) ==
    /\ req[r].pc = "cr_profile"
    /\ LET u == req[r].user IN
       req' = [req EXCEPT ![r] = [@ EXCEPT !.pc = "cr_book",
                  !.found = u \in DOMAIN profile,
                  !.credits = IF u \in DOMAIN profile THEN profile[u] ELSE 0]]
    /\ UNCHANGED <<db, env>>

\* reservations.py:24  `if not book or not book.is_active`
BookAvailable(b) == b \in DOMAIN book /\ book[b].is_active

\* A guard that is off by one.
Insufficient_OffByOne(credits, cu) == credits < cu - 1

\* reservations.py:27  `if profile.credits < reservation_in.credits_used`
Insufficient(credits, cu) == credits < cu

\* reservations.py:22-28  book = session.get(Book, book_id) and the guards.
\* With no profile row, `profile.credits` raises AttributeError: a 500.
cr_get_book(r) ==
    /\ req[r].pc = "cr_book"
    /\ \E b \in BookIds, cu \in CreditsUsedIn :
          LET q == [req[r] EXCEPT !.book_id = b, !.credits_used = cu] IN
          req' = [req EXCEPT ![r] =
                    IF ~BookAvailable(b) THEN Done(q, 404)
                    ELSE IF ~q.found THEN Done(q, 500)
                    ELSE IF Insufficient(q.credits, cu) THEN Done(q, 400)
                    ELSE [q EXCEPT !.pc = "cr_commit"]]
    /\ UNCHANGED <<db, env>>

\* The body's status is stored as sent.
ReservationRow_KeepStatus(u, b, cu, sd, ed, st, bw) ==
    [book_id |-> b, borrower_id |-> u, status |-> st,
     start_date |-> sd, end_date |-> ed, credits_used |-> cu]

\* The borrower_id of the request body is stored.
ReservationRow_BodyBorrower(u, b, cu, sd, ed, st, bw) ==
    [book_id |-> b, borrower_id |-> bw, status |-> PENDING,
     start_date |-> sd, end_date |-> ed, credits_used |-> cu]

\* reservations.py:31-35  the row handed to session.add: borrower_id and
\* status are overwritten, every other field is the request body's
\* (st and bw are the body's status and borrower_id).
ReservationRow(u, b, cu, sd, ed, st, bw) ==
    [book_id |-> b, borrower_id |-> u, status |-> PENDING,
     start_date |-> sd, end_date |-> ed, credits_used |-> cu]

\* reservations.py:30  profile.credits -= reservation_in.credits_used,
\* on the value this session loaded.
Debit(credits, cu) == credits - cu

\* Whether the flush of create_reservation passes the database's checks:
\* the foreign keys of the new row and the uniqueness of its primary key.
CrFlushOk(u, b, id) ==
    /\ u \in DOMAIN profile
    /\ b \in DOMAIN book
    /\ id # 0 => id \notin DOMAIN reservation

\* The debit is written in SQL on the stored value (credits = credits - cu).
CrProfile_Relative(ok, u, credits, cu) ==
    IF ok /\ cu # 0 THEN [profile EXCEPT ![u] = profile[u] - cu] ELSE profile

\* The debit is committed on its own, before the insert is tried.
CrProfile_NoRollback(ok, u, credits, cu) ==
    IF cu # 0 /\ u \in DOMAIN profile
    THEN [profile EXCEPT ![u] = credits - cu] ELSE profile

\* The profile table after the flush of create_reservation.  The unit of
\* work writes `UPDATE profile SET credits = <new value>` and only when the
\* attribute has a net change.
CrProfile(ok, u, credits, cu) ==
    IF ok /\ cu # 0 THEN [profile EXCEPT ![u] = Debit(credits, cu)] ELSE profile

\* The reservation table after the flush of create_reservation.
CrReservation(ok, id, row) ==
    IF ok THEN Insert(reservation,
                      IF id = 0 THEN NextId(DOMAIN reservation) ELSE id, row)
    ELSE reservation

\* reservations.py:30-38  session.commit(): UPDATE profile, INSERT
\* reservation and COMMIT in one transaction; a failed statement raises and
\* the session's context manager rolls the transaction back.
cr_commit(r) ==
    /\ req[r].pc = "cr_commit"
    /\ UNCHANGED <<book, creditshistory, env>>
    /\ \E id \in {0} \cup ResIds, sd \in StartDates, ed \in EndDates,
          st \in StatusIn, bw \in Users :
          LET u == req[r].user
              ok == CrFlushOk(u, req[r].book_id, id)
          IN
          /\ profile' = CrProfile(ok, u, req[r].credits, req[r].credits_used)
          /\ reservation' =
                CrReservation(ok, id,
                    ReservationRow(u, req[r].book_id, req[r].credits_used,
                                   sd, ed, st, bw))
          /\ Respond(r, IF ok THEN 201 ELSE 500)

\* reservations.py:48-51  select(Reservation).where(borrower_id == user_id):
\* the keys of the rows that GET /reservations/my returns to subject u
list_my_reservations(u) ==
    {i \in DOMAIN reservation : reservation[i].borrower_id = u}

\* ------------------------------------------------------------- claim_daily_bonus
\* profiles.py:54-57
cb_get_profile(r) ==
    /\ req[r].pc = "cb_profile"
    /\ LET u == req[r].user IN
       IF u \notin DOMAIN profile THEN Respond(r, 404)
       ELSE req' = [req EXCEPT ![r] = [@ EXCEPT !.pc = "cb_commit",
                       !.found = TRUE, !.credits = profile[u]]]
    /\ UNCHANGED <<db, env>>

\* profiles.py:59  profile.credits += 1
Bonus(credits) == credits + 1

\* profiles.py:59-62  no check of the time of the last claim, no history row
cb_commit(r) ==
    /\ req[r].pc = "cb_commit"
    /\ UNCHANGED <<book, reservation, creditshistory, env>>
    /\ profile' = [profile EXCEPT ![req[r].user] = Bonus(req[r].credits)]
    /\ Respond(r, 200)

\* ------------------------------------------------------------- get_my_profile
\* profiles.py:19-21
mp_get_profile(r) ==
    /\ req[r].pc = "mp_profile"
    /\ IF req[r].user \in DOMAIN profile THEN Respond(r, 200)
       ELSE req' = [req EXCEPT ![r] = [@ EXCEPT !.pc = "mp_commit"]]
    /\ UNCHANGED <<db, env>>

\* models/book.py:30  credits: int = Field(default=0)
NewProfile == 0

\* profiles.py:23-27  INSERT profile; a row inserted meanwhile by another
\* request makes the primary key collide
mp_commit(r) ==
    /\ req[r].pc = "mp_commit"
    /\ UNCHANGED <<book, reservation, creditshistory, env>>
    /\ IF req[r].user \in DOMAIN profile
       THEN /\ UNCHANGED profile
            /\ Respond(r, 500)
       ELSE /\ profile' = Insert(profile, req[r].user, NewProfile)
            /\ Respond(r, 200)

\* ------------------------------------------------------------- create_book
\* books.py:57-62
bk_get_profile(r) ==
    /\ req[r].pc = "bk_profile"
    /\ req' = [req EXCEPT ![r] = [@ EXCEPT !.pc = "bk_commit",
                  !.found = req[r].user \in DOMAIN profile]]
    /\ UNCHANGED <<db, env>>

\* The owner_id of the request body is stored.
BookRow_BodyOwner(u, active, ow) == [owner_id |-> ow, is_active |-> active]

\* books.py:64  book_in.owner_id = user_id (ow is the body's owner_id)
BookRow(u, active, ow) == [owner_id |-> u, is_active |-> active]

\* books.py:61-68  INSERT profile (when none was found), INSERT book, COMMIT
bk_commit(r) ==
    /\ req[r].pc = "bk_commit"
    /\ UNCHANGED <<reservation, creditshistory, env>>
    /\ \E id \in {0} \cup BookIds, active \in BOOLEAN, ow \in Users :
          IF /\ req[r].found \/ req[r].user \notin DOMAIN profile
             /\ id # 0 => id \notin DOMAIN book
          THEN /\ profile' = IF req[r].found THEN profile
                             ELSE Insert(profile, req[r].user, NewProfile)
               /\ book' = Insert(book,
                            IF id = 0 THEN NextId(DOMAIN book) ELSE id,
                            BookRow(req[r].user, active, ow))
               /\ Respond(r, 201)
          ELSE /\ UNCHANGED <<profile, book>>
               /\ Respond(r, 500)

\* ------------------------------------------------------------- update_book
\* books.py:85 / books.py:112  `if db_book.owner_id != user_id`
NotOwner(b, u) == book[b].owner_id # u

\* books.py:80-86
ub_get_book(r) ==
    /\ req[r].pc = "ub_book"
    /\ \E b \in BookIds :
          LET q == [req[r] EXCEPT !.book_id = b] IN
          req' = [req EXCEPT ![r] =
                    IF b \notin DOMAIN book THEN Done(q, 404)
                    ELSE IF NotOwner(b, q.user) THEN Done(q, 403)
                    ELSE [q EXCEPT !.pc = "ub_commit",
                                   !.is_active = book[b].is_active]]
    /\ UNCHANGED <<db, env>>

\* books.py:88-96  every field the body sets except id, owner_id and
\* created_at is copied (id and ow are the body's id and owner_id); the flush
\* writes the changed column, and fails when the row is gone.
ub_commit(r) ==
    /\ req[r].pc = "ub_commit"
    /\ UNCHANGED <<profile, reservation, creditshistory, env>>
    /\ \E active \in BOOLEAN, id \in {0} \cup BookIds, ow \in Users :
          LET b == req[r].book_id IN
          IF b \notin DOMAIN book
          THEN /\ UNCHANGED book
               /\ Respond(r, 500)
          ELSE /\ book' = IF active # req[r].is_active
                          THEN [book EXCEPT ![b].is_active = active]
                          ELSE book
               /\ Respond(r, 200)

\* ------------------------------------------------------------- delete_book
\* books.py:107-113
dl_get_book(r) ==
    /\ req[r].pc = "dl_book"
    /\ \E b \in BookIds :
          LET q == [req[r] EXCEPT !.book_id = b] IN
          req' = [req EXCEPT ![r] =
                    IF b \notin DOMAIN book THEN Done(q, 404)
                    ELSE IF NotOwner(b, q.user) THEN Done(q, 403)
                    ELSE [q EXCEPT !.pc = "dl_commit",
                                   !.is_active = book[b].is_active]]
    /\ UNCHANGED <<db, env>>

\* books.py:115-117  DELETE book; reservation.book_id is a NOT NULL foreign
\* key, so the flush fails while a reservation refers to the book
dl_commit(r) ==
    /\ req[r].pc = "dl_commit"
    /\ UNCHANGED <<profile, reservation, creditshistory, env>>
    /\ LET b == req[r].book_id IN
       IF \E i \in DOMAIN reservation : reservation[i].book_id = b
       THEN /\ UNCHANGED book
            /\ Respond(r, 500)
       ELSE /\ book' = Delete(book, b)
            /\ Respond(r, 204)

\* ------------------------------------------------------------- no route
\* reservations.py:9-51  the router has two routes, POST / and GET /my:
\* a request to cancel (activate, complete) a reservation matches none.
no_route(r) ==
    /\ req[r].pc = "no_route"
    /\ Respond(r, 404)
    /\ UNCHANGED <<db, env>>

\* ------------------------------------------------------------- clock
Tick ==
    /\ now < MaxClock
    /\ now' = now + 1
    /\ UNCHANGED <<db, req, served, auth>>

\* ------------------------------------------------------------- get_current_user
\* A coroutine with no credential in it.
NoGate ==
    [pc |-> "idle", key |-> "none", sub |-> FALSE, jwks |-> {},
     fetched |-> FALSE, code |-> 0]

\* get_current_user returns the payload (200) or raises HTTPException(code).
GateDone(g, code) == [g EXCEPT !.pc = "done", !.code = code]

\* auth.py:44  a request arrives with a bearer credential: a token signed
\* with key k whose payload has a sub claim or has none.
gate_start(r) ==
    /\ gate[r].pc \in {"idle", "done"}
    /\ served < MaxRequests
    /\ served' = served + 1
    /\ \E k \in TokenKeys, sub \in BOOLEAN :
          gate' = [gate EXCEPT ![r] =
                     [NoGate EXCEPT !.pc = "gate", !.key = k, !.sub = sub]]
    /\ UNCHANGED <<db, req, now, CLERK_JWT_PUBLIC_KEY, CLERK_JWKS_URL,
                   jwks_cache, published>>

\* jwt.decode(token, keys): the signature verifies against one of the keys.
Verifies(k, keys) == k \in keys

\* The local key is not looked at: every token goes to the key set.
UseLocalKey_Never == FALSE

\* auth.py:49  `if CLERK_JWT_PUBLIC_KEY:`
UseLocalKey == CLERK_JWT_PUBLIC_KEY # "none"

\* auth.py:49-62  the payload of a token that verifies against the local
\* key is returned as it is; a JWTError is answered 401.
gcu_local_key(r) ==
    /\ gate[r].pc = "gate"
    /\ UseLocalKey
    /\ gate' = [gate EXCEPT ![r] =
                  GateDone(@, IF Verifies(@.key, {CLERK_JWT_PUBLIC_KEY})
                              THEN 200 ELSE 401)]
    /\ UNCHANGED <<db, req, served, now, CLERK_JWT_PUBLIC_KEY, CLERK_JWKS_URL,
                   jwks_cache, published>>

\* auth.py:65, 21-32  get_jwks() up to the request to the issuer: a truthy
\* cache is returned, a missing URL raises 500, otherwise the coroutine
\* awaits the response.
gcu_get_jwks(r) ==
    /\ gate[r].pc = "gate"
    /\ ~UseLocalKey
    /\ gate' = [gate EXCEPT ![r] =
                  IF jwks_cache # {}
                  THEN [@ EXCEPT !.pc = "decode", !.jwks = jwks_cache]
                  ELSE IF ~CLERK_JWKS_URL THEN GateDone(@, 500)
                  ELSE [@ EXCEPT !.pc = "fetch"]]
    /\ UNCHANGED <<db, req, served, now, CLERK_JWT_PUBLIC_KEY, CLERK_JWKS_URL,
                   jwks_cache, published>>

\* auth.py:34-42  the response arrives: the key set the issuer serves now is
\* stored in the cache and returned, or the request failed and 500 is raised.
get_jwks_fetch(r) ==
    /\ gate[r].pc = "fetch"
    /\ \E ok \in BOOLEAN :
          IF ok
          THEN /\ jwks_cache' = published
               /\ gate' = [gate EXCEPT ![r] =
                             [@ EXCEPT !.pc = "decode", !.jwks = published,
                                       !.fetched = TRUE]]
          ELSE /\ UNCHANGED jwks_cache
               /\ gate' = [gate EXCEPT ![r] = GateDone(@, 500)]
    /\ UNCHANGED <<db, req, served, now, CLERK_JWT_PUBLIC_KEY, CLERK_JWKS_URL,
                   published>>

\* auth.py:66-86  the token is verified against the key set get_jwks()
\* returned; a payload without sub and a JWTError are answered 401.
gcu_decode(r) ==
    /\ gate[r].pc = "decode"
    /\ gate' = [gate EXCEPT ![r] =
                  GateDone(@, IF Verifies(@.key, @.jwks) /\ @.sub
                              THEN 200 ELSE 401)]
    /\ UNCHANGED <<db, req, served, now, CLERK_JWT_PUBLIC_KEY, CLERK_JWKS_URL,
                   jwks_cache, published>>

\* The issuer rotates its signing key: k1 is withdrawn and k2 published.
Rotate ==
    /\ published = {"k1"}
    /\ published' = {"k2"}
    /\ UNCHANGED <<db, req, served, now, CLERK_JWT_PUBLIC_KEY, CLERK_JWKS_URL,
                   jwks_cache, gate>>

\* ------------------------------------------------------------- specification
\* auth.py:10-19  the process after import, for one key configuration
AuthInit(key, url) ==
    /\ CLERK_JWT_PUBLIC_KEY = key
    /\ CLERK_JWKS_URL = url
    /\ jwks_cache = {}
    /\ published = {"k1"}
    /\ gate = [r \in Reqs |-> NoGate]

Init ==
    /\ AuthInit("none", TRUE)
    /\ profile = <<>>
    /\ book = <<>>
    /\ reservation = <<>>
    /\ creditshistory = <<>>
    /\ req = [r \in Reqs |-> Idle]
    /\ served = 0
    /\ now = 0

Next ==
    \E r \in Reqs :
        \/ Start(r)
        \/ cr_get_profile(r)
        \/ cr_get_book(r)
        \/ cr_commit(r)
        \/ cb_get_profile(r)
        \/ cb_commit(r)
        \/ mp_get_profile(r)
        \/ mp_commit(r)
        \/ bk_get_profile(r)
        \/ bk_commit(r)
        \/ ub_get_book(r)
        \/ ub_commit(r)
        \/ dl_get_book(r)
        \/ dl_commit(r)
        \/ no_route(r)

Spec == Init /\ [][Next]_vars

\* claim_daily_bonus and get_my_profile under a wall clock
NextBonus ==
    \/ Tick
    \/ \E r \in Reqs :
          \/ StartOf(r, {"claim_daily_bonus", "get_my_profile"})
          \/ cb_get_profile(r)
          \/ cb_commit(r)
          \/ mp_get_profile(r)
          \/ mp_commit(r)

SpecBonus == Init /\ [][NextBonus]_vars

\* get_current_user alone, for every key configuration
InitAuth ==
    /\ profile = <<>>
    /\ book = <<>>
    /\ reservation = <<>>
    /\ creditshistory = <<>>
    /\ req = [r \in Reqs |-> Idle]
    /\ served = 0
    /\ now = 0
    /\ \E key \in {"none", "k1"}, url \in BOOLEAN : AuthInit(key, url)

NextAuth ==
    \/ Rotate
    \/ \E r \in Reqs :
          \/ gate_start(r)
          \/ gcu_local_key(r)
          \/ gcu_get_jwks(r)
          \/ get_jwks_fetch(r)
          \/ gcu_decode(r)

SpecAuth == InitAuth /\ [][NextAuth]_vars

\* ------------------------------------------------------------- properties
RECURSIVE SumAmounts(_, _)
\* sum(row.amount for row in creditshistory if row.user_id == u)
SumAmounts(rows, u) ==
    IF rows = <<>> THEN 0
    ELSE (IF Head(rows).user_id = u THEN Head(rows).amount ELSE 0)
         + SumAmounts(Tail(rows), u)

IsCreate(q) == q.op = "create_reservation"
Succeeded(q) == q.pc = "done" /\ q.code \in {200, 201, 204}

\* C1: every profile's credits equals the sum of the amounts of its
\* CreditsHistory rows.  (The handlers never write a history row.)
C1_LedgerReconciles ==
    \A u \in DOMAIN profile : profile[u] = SumAmounts(creditshistory, u)

\* C2: two create_reservation requests of one borrower that both read the
\* balance B, each affordable alone and together costing more than B, never
\* both succeed: once the first has committed its debit, the commit of the
\* second, which the balance left can no longer pay, does not succeed.
C2_SerializedBalanceCheck ==
    [][\A r1 \in Reqs, r2 \in Reqs :
          ( /\ r1 # r2
            /\ IsCreate(req[r1]) /\ Succeeded(req[r1])
            /\ IsCreate(req[r2]) /\ req[r2].pc = "cr_commit"
            /\ req[r1].user = req[r2].user
            /\ req[r1].credits = req[r2].credits
            /\ req[r1].credits_used <= req[r1].credits
            /\ req[r2].credits_used <= req[r2].credits
            /\ req[r1].credits_used + req[r2].credits_used > req[r2].credits
            /\ profile[req[r2].user] = req[r1].credits - req[r1].credits_used
            /\ req'[r2].pc = "done" )
          => req'[r2].code # 201]_vars

\* C3: a create_reservation whose credits_used exceeds the credits of the
\* caller's profile (the profile exists, the book is active) answers 400,
\* and no step of the request up to that answer changes the database.
C3_RejectedDebitNoEffect ==
    [][\A r \in Reqs :
          /\ ( /\ req[r].pc = "cr_book" /\ req'[r].pc # "cr_book"
               /\ req[r].found
               /\ BookAvailable(req'[r].book_id)
               /\ req[r].credits < req'[r].credits_used )
             => /\ req'[r].pc = "done" /\ req'[r].code = 400
                /\ UNCHANGED db
          /\ ( req[r].pc \in {"cr_profile", "cr_book"} /\ req'[r] # req[r] )
             => UNCHANGED db
          /\ ( req[r].pc = "done" /\ req[r].code = 400 /\ req'[r] # req[r] )
             => UNCHANGED db]_vars

\* A request for 1 credit on a profile holding 0 was answered 400 and the
\* reservation table is empty.
C3_Witness ==
    \E r \in Reqs :
        /\ IsCreate(req[r]) /\ req[r].pc = "done" /\ req[r].code = 400
        /\ req[r].credits = 0 /\ req[r].credits_used = 1
        /\ profile[req[r].user] = 0
        /\ reservation = <<>>

\* C4: no profile ever holds a negative number of credits, whatever the
\* interleaving of the requests and whatever credits_used the bodies carry.
C4_NonNegativeBalance == \A u \in DOMAIN profile : profile[u] >= 0

\* Two reservations of 1 credit each were committed for one borrower whose
\* history of requests gave it a single credit: the balance stands at 0.
C4_Witness ==
    \E u \in DOMAIN profile, i \in DOMAIN reservation, j \in DOMAIN reservation :
        /\ i # j
        /\ reservation[i].borrower_id = u /\ reservation[i].credits_used = 1
        /\ reservation[j].borrower_id = u /\ reservation[j].credits_used = 1
        /\ profile[u] = 0
        /\ \A r \in Reqs : IsCreate(req[r]) /\ Succeeded(req[r])
                              /\ req[r].credits = 1

\* Rows of the table after a step that were not in it before.
Added(old, new) == DOMAIN new \ DOMAIN old
\* Every row of the table before the step is still there, unchanged.
Kept(old, new) == \A i \in DOMAIN old : i \in DOMAIN new /\ new[i] = old[i]

\* C5: a create_reservation that succeeds, the balance being still the one
\* the handler read, takes exactly credits_used from the caller's credits,
\* adds exactly one reservation, stored with status pending and the
\* request's credits_used, and changes no other profile, reservation or book.
C5_SuccessfulCreate ==
    [][\A r \in Reqs :
          ( /\ req[r].pc = "cr_commit"
            /\ Succeeded(req'[r])
            /\ profile[req[r].user] = req[r].credits )
          => /\ Cardinality(Added(reservation, reservation')) = 1
             /\ Kept(reservation, reservation')
             /\ \A i \in Added(reservation, reservation') :
                   /\ reservation'[i].status = "pending"
                   /\ reservation'[i].credits_used = req[r].credits_used
                   /\ profile' = [profile EXCEPT ![req[r].user] =
                                    profile[req[r].user]
                                      - reservation'[i].credits_used]
             /\ book' = book]_vars

\* A create_reservation for 1 credit has succeeded: its row is stored and
\* the caller holds one credit less than the handler read.
C5_Witness ==
    \E r \in Reqs, i \in DOMAIN reservation :
        /\ IsCreate(req[r]) /\ Succeeded(req[r])
        /\ req[r].credits_used = 1
        /\ profile[req[r].user] = req[r].credits - 1
        /\ reservation[i].borrower_id = req[r].user
        /\ reservation[i].credits_used = 1
        /\ reservation[i].status = "pending"

\* C6: the commit of a create_reservation is all or nothing: either it
\* answers 201, one row is added and the caller's credits are the debited
\* value, or it fails and neither the profiles nor the reservations change
\* (no row added, none overwritten).
C6_AllOrNothing ==
    [][\A r \in Reqs :
          ( req[r].pc = "cr_commit" /\ req'[r].pc = "done" )
          => \/ /\ req'[r].code = 201
                /\ Cardinality(Added(reservation, reservation')) = 1
                /\ Kept(reservation, reservation')
                /\ profile'[req[r].user]
                     = IF req[r].credits_used = 0 THEN profile[req[r].user]
                       ELSE req[r].credits - req[r].credits_used
             \/ /\ req'[r].code # 201
                /\ profile' = profile
                /\ reservation' = reservation]_vars

\* The commit of a create_reservation with a debit pending has failed (the
\* profile had been found, so the 500 is the flush's) and the caller's
\* credits are still what the handler read.
C6_Witness ==
    \E r \in Reqs :
        /\ IsCreate(req[r]) /\ req[r].pc = "done" /\ req[r].code = 500
        /\ req[r].found
        /\ req[r].credits_used # 0
        /\ profile[req[r].user] = req[r].credits

\* C7: a create_reservation for a book that does not exist or is not active
\* answers 404 and changes nothing, and every reservation is inserted for a
\* book that exists and is active at the moment of the insert.
C7_UnavailableBook ==
    [][/\ \A r \in Reqs :
             ( /\ req[r].pc = "cr_book" /\ req'[r].pc # "cr_book"
               /\ ~BookAvailable(req'[r].book_id) )
             => /\ req'[r].pc = "done" /\ req'[r].code = 404
                /\ UNCHANGED db
       /\ \A i \in Added(reservation, reservation') :
             BookAvailable(reservation'[i].book_id)]_vars

\* C8: every stored reservation has start_date < end_date.
C8_LoanWindow ==
    \A i \in DOMAIN reservation :
        reservation[i].start_date < reservation[i].end_date

\* profiles.py:59  the bonus is 1 credit
BonusAmount == 1

\* C9: a claim_daily_bonus for a profile that was already granted the bonus
\* at the same clock value leaves the profile's credits unchanged.
C9_DailyBonusOnce ==
    [][\A r1 \in Reqs, r2 \in Reqs :
          ( /\ r1 # r2
            /\ req[r1].op = "claim_daily_bonus" /\ Succeeded(req[r1])
            /\ req[r1].at = now
            /\ req[r2].op = "claim_daily_bonus" /\ req[r2].pc = "cb_commit"
            /\ req[r2].user = req[r1].user
            /\ req[r2].credits >= BonusAmount
            /\ req'[r2].pc = "done" )
          => profile'[req[r2].user] = profile[req[r2].user]]_vars

\* Whether subject u may cancel reservation i: its borrower or the owner of
\* its book.
MayCancel(u, i) ==
    \/ reservation[i].borrower_id = u
    \/ /\ reservation[i].book_id \in DOMAIN book
       /\ book[reservation[i].book_id].owner_id = u

\* C10: the first Cancel of a pending or active reservation by its borrower
\* or the book's owner sets its status to cancelled and adds credits_used
\* back to the borrower's credits.
C10_CancelRefunds ==
    [][\A r \in Reqs :
          ( /\ req[r].op = "cancel_reservation" /\ req[r].pc # "done"
            /\ req'[r].pc = "done"
            /\ req[r].res_id \in DOMAIN reservation
            /\ reservation[req[r].res_id].status \in {"pending", "active"}
            /\ MayCancel(req[r].user, req[r].res_id) )
          => /\ req[r].res_id \in DOMAIN reservation'
             /\ reservation'[req[r].res_id].status = "cancelled"
             /\ profile'[reservation[req[r].res_id].borrower_id]
                  = profile[reservation[req[r].res_id].borrower_id]
                    + reservation[req[r].res_id].credits_used]_vars

\* The moves of a reservation's status that the life cycle allows.
AllowedMoves ==
    { <<"pending", "active">>, <<"active", "completed">>,
      <<"pending", "cancelled">>, <<"active", "cancelled">> }

\* C11: a reservation is stored with status pending when it is created, and
\* in every step the status of a stored reservation stays what it was or
\* moves along an allowed edge; completed and cancelled are final.
C11_StatusMachine ==
    [][/\ \A i \in Added(reservation, reservation') :
             reservation'[i].status = PENDING
       /\ \A i \in DOMAIN reservation \cap DOMAIN reservation' :
             \/ reservation'[i].status = reservation[i].status
             \/ <<reservation[i].status, reservation'[i].status>>
                   \in AllowedMoves]_vars

\* A reservation is stored as pending and a request to cancel it has been
\* answered since without moving it.
C11_Witness ==
    \E i \in DOMAIN reservation, r \in Reqs :
        /\ reservation[i].status = PENDING
        /\ req[r].op = "cancel_reservation"
        /\ req[r].pc = "done" /\ req[r].code = 404

\* C12: an update_book or delete_book by a subject that is not the book's
\* owner answers 403 and changes nothing, and so a book's row changes or
\* goes away only in a step of a request made by the book's owner.
C12_OwnerOnly ==
    [][/\ \A r \in Reqs :
             ( /\ req[r].pc \in {"ub_book", "dl_book"}
               /\ req'[r].pc # req[r].pc
               /\ req'[r].book_id \in DOMAIN book
               /\ book[req'[r].book_id].owner_id # req[r].user )
             => /\ req'[r].pc = "done" /\ req'[r].code = 403
                /\ UNCHANGED db
       /\ \A b \in DOMAIN book :
             ( b \notin DOMAIN book' \/ book'[b] # book[b] )
             => \E r \in Reqs : /\ req'[r] # req[r]
                                /\ req[r].user = book[b].owner_id]_vars

\* C13: on the key-set path a token that fails against the cached key set
\* is retried against a freshly fetched one before it is refused; so a token
\* with a sub claim, signed with a key the issuer publishes now, is not
\* answered 401 on the strength of a cached key set this request did not
\* fetch.
C13_RotationRetry ==
    [][\A r \in Reqs :
          ( /\ gate[r].pc = "decode" /\ gate'[r].pc = "done"
            /\ ~gate[r].fetched
            /\ gate[r].sub
            /\ gate[r].key \in published )
          => gate'[r].code # 401]_vars

\* C14: with a local public key configured, every token is decided in one
\* step by that key alone (200 when it verifies against it, 401 otherwise),
\* no coroutine ever asks for the key set, and the cache stays as it is.
C14_LocalKeyOnly ==
    [][CLERK_JWT_PUBLIC_KEY # "none"
          => /\ jwks_cache' = jwks_cache
             /\ \A r \in Reqs :
                   /\ gate'[r].pc \notin {"fetch", "decode"}
                   /\ ~gate'[r].fetched
                   /\ ( gate[r].pc = "gate" /\ gate'[r] # gate[r] )
                      => /\ gate'[r].pc = "done"
                         /\ gate'[r].code =
                              IF gate[r].key = CLERK_JWT_PUBLIC_KEY
                              THEN 200 ELSE 401]_vars

\* With a local key configured, one token was accepted and another refused,
\* and the key-set cache is still empty.
C14_Witness ==
    /\ CLERK_JWT_PUBLIC_KEY # "none"
    /\ jwks_cache = {}
    /\ \E r1 \in Reqs, r2 \in Reqs :
          /\ gate[r1].pc = "done" /\ gate[r1].code = 200
          /\ gate[r2].pc = "done" /\ gate[r2].code = 401

\* C15: whatever the credential and the key configuration, the gate ends
\* either returning the claims of a token that verified and that has a sub
\* claim, or with 401; in particular a token without sub is answered 401.
C15_GateOutcome ==
    \A r \in Reqs :
        gate[r].pc = "done"
        => \/ gate[r].code = 401
           \/ /\ gate[r].code = 200
              /\ gate[r].sub
              /\ gate[r].key \in TokenKeys \ {"forged"}

\* C16: every stored reservation has credits_used >= 0, and no step of a
\* create_reservation leaves its caller with more credits than before.
C16_NonNegativeCost ==
    [][/\ \A i \in DOMAIN reservation' : reservation'[i].credits_used >= 0
       /\ \A r \in Reqs :
             ( /\ IsCreate(req[r]) /\ req'[r] # req[r]
               /\ req[r].user \in DOMAIN profile )
             => profile'[req[r].user] <= profile[req[r].user]]_vars

\* C17: a create_reservation for an existing active book whose caller has
\* no profile row answers 404 (NotFound) and changes nothing.
C17_MissingProfile ==
    [][\A r \in Reqs :
          ( /\ req[r].pc = "cr_book" /\ req'[r].pc # "cr_book"
            /\ ~req[r].found
            /\ BookAvailable(req'[r].book_id) )
          => /\ req'[r].pc = "done" /\ req'[r].code = 404
             /\ UNCHANGED db]_vars

\* C18: no update of a balance is lost: every successful claim_daily_bonus
\* adds exactly the bonus to, and every committed create_reservation takes
\* exactly its credits_used from, the credits stored at the moment of its
\* commit, so that a profile created with 0 holds the number of successful
\* claims minus the sum of credits_used of its committed reservations.
C18_NoLostUpdate ==
    [][\A r \in Reqs :
          /\ ( req[r].pc = "cb_commit" /\ Succeeded(req'[r]) )
             => profile'[req[r].user] = profile[req[r].user] + BonusAmount
          /\ ( req[r].pc = "cr_commit" /\ Succeeded(req'[r]) )
             => profile'[req[r].user]
                  = profile[req[r].user] - req[r].credits_used]_vars

\* C19: every reservation is stored with the verified subject of the
\* request that created it as borrower_id, whatever the body carried; a
\* create_reservation changes the credits of no other profile; and what
\* list_my_reservations returns to a subject grows by exactly the rows that
\* subject's requests insert, each row staying as it was stored (a step that
\* leaves the table as it is leaves every list as it is).
C19_BorrowerIsCaller ==
    [][/\ \A r \in Reqs :
             ( req[r].pc = "cr_commit" /\ req'[r] # req[r] )
             => /\ \A i \in Added(reservation, reservation') :
                      reservation'[i].borrower_id = req[r].user
                /\ \A u \in DOMAIN profile \ {req[r].user} :
                      profile'[u] = profile[u]
       /\ \/ reservation' = reservation
          \/ \A u \in Users :
                /\ list_my_reservations(u)'
                     = list_my_reservations(u)
                       \cup {i \in Added(reservation, reservation') :
                               \E r \in Reqs : /\ req[r].pc = "cr_commit"
                                               /\ req'[r] # req[r]
                                               /\ req[r].user = u}
                /\ \A i \in list_my_reservations(u) :
                      reservation'[i] = reservation[i]]_vars

\* Both subjects have created a reservation: each is listed for its creator
\* only.
C19_Witness ==
    \E i \in DOMAIN reservation, j \in DOMAIN reservation :
        /\ list_my_reservations("u1") = {i}
        /\ list_my_reservations("u2") = {j}
        /\ \E r \in Reqs : /\ IsCreate(req[r]) /\ Succeeded(req[r])
                           /\ req[r].user = "u2"

IsBookOp(q) == q.op \in {"create_book", "update_book", "delete_book"}

\* C20: a create_book that succeeds stores one book whose owner_id is the
\* verified subject, whatever the body carried, and leaves that subject with
\* a profile (credits 0 when it had none); no commit of an update_book
\* changes which books exist or the owner_id of any of them; and no step of
\* a book operation changes the credits of an existing profile.
C20_OwnerFixedAtCreation ==
    [][\A r \in Reqs :
          /\ ( req[r].pc = "bk_commit" /\ Succeeded(req'[r]) )
             => /\ Cardinality(Added(book, book')) = 1
                /\ \A b \in Added(book, book') :
                      book'[b].owner_id = req[r].user
                /\ Kept(book, book')
                /\ req[r].user \in DOMAIN profile'
                /\ req[r].user \notin DOMAIN profile
                      => profile'[req[r].user] = 0
          /\ ( req[r].pc = "ub_commit" /\ req'[r] # req[r] )
             => /\ DOMAIN book' = DOMAIN book
                /\ \A b \in DOMAIN book :
                      book'[b].owner_id = book[b].owner_id
          /\ ( IsBookOp(req[r]) /\ req'[r] # req[r] )
             => \A u \in DOMAIN profile : profile'[u] = profile[u]]_vars

\* A subject without a profile has created a book, which it owns, its
\* profile now exists with credits 0, and an update_book of the book by its
\* owner has succeeded.
C20_Witness ==
    \E r1 \in Reqs, r2 \in Reqs, b \in DOMAIN book :
        /\ req[r1].op = "create_book" /\ Succeeded(req[r1])
        /\ ~req[r1].found
        /\ book[b].owner_id = req[r1].user
        /\ profile[req[r1].user] = 0
        /\ req[r2].op = "update_book" /\ Succeeded(req[r2])
        /\ req[r2].user = req[r1].user

=============================================================================
